---- MODULE Spec2Model ----
(***************************************************************************)
(* Model of the mini-midi codec (src/lib.rs): the Channel enum with its    *)
(* conversions from and to a u8 index, and the Message enum with its       *)
(* conversions from a byte slice (decode) and into a byte vector (encode). *)
(* A caller picks an input (a byte slice, a Message or a channel index)    *)
(* and applies the conversions to it; the properties relate the results.   *)
(***************************************************************************)
EXTENDS Integers, Sequences, FiniteSets, TLC

(* ------------------------------ bounds --------------------------------- *)

\* Longest byte slice with an arbitrary first byte handed to decode.
MaxLen == 3

\* Longest SystemExclusive payload.
MaxPayload == 3

\* Data byte values tried after the status byte and in Message fields.
DataSamples == {0, 40, 60, 100, 127, 128, 247}

\* Byte values tried inside SystemExclusive payloads.
PayloadSamples == {1, 2, 3, 247}

U8 == 0..255

RECURSIVE SeqsUpTo(_, _)
SeqsUpTo(S, n) ==
    IF n = 0 THEN {<<>>}
    ELSE LET shorter == SeqsUpTo(S, n - 1)
         IN  shorter \cup {Append(s, x) : s \in {t \in shorter : Len(t) = n - 1}, x \in S}

(* ------------------------------ Channel -------------------------------- *)

\* enum Channel, in declaration order.
Channels ==
    << "Channel1", "Channel2", "Channel3", "Channel4",
       "Channel5", "Channel6", "Channel7", "Channel8",
       "Channel9", "Channel10", "Channel11", "Channel12",
       "Channel13", "Channel14", "Channel15", "Channel16" >>

\* Placeholder in the channel field of the variants that carry no Channel.
NoChannel == "NoChannel"

\* A plausible slip: out-of-range indices wrap around instead of clamping.
Channel_from_wrap(value) ==
    CASE value % 16 = 0 -> "Channel1"
      [] value % 16 = 1 -> "Channel2"
      [] value % 16 = 2 -> "Channel3"
      [] value % 16 = 3 -> "Channel4"
      [] value % 16 = 4 -> "Channel5"
      [] value % 16 = 5 -> "Channel6"
      [] value % 16 = 6 -> "Channel7"
      [] value % 16 = 7 -> "Channel8"
      [] value % 16 = 8 -> "Channel9"
      [] value % 16 = 9 -> "Channel10"
      [] value % 16 = 10 -> "Channel11"
      [] value % 16 = 11 -> "Channel12"
      [] value % 16 = 12 -> "Channel13"
      [] value % 16 = 13 -> "Channel14"
      [] value % 16 = 14 -> "Channel15"
      [] OTHER -> "Channel16"

\* impl From<u8> for Channel
Channel_from(value) ==
    CASE value = 0 -> "Channel1"
      [] value = 1 -> "Channel2"
      [] value = 2 -> "Channel3"
      [] value = 3 -> "Channel4"
      [] value = 4 -> "Channel5"
      [] value = 5 -> "Channel6"
      [] value = 6 -> "Channel7"
      [] value = 7 -> "Channel8"
      [] value = 8 -> "Channel9"
      [] value = 9 -> "Channel10"
      [] value = 10 -> "Channel11"
      [] value = 11 -> "Channel12"
      [] value = 12 -> "Channel13"
      [] value = 13 -> "Channel14"
      [] value = 14 -> "Channel15"
      [] OTHER -> "Channel16"

\* A plausible slip: two arms of the match carry each other's number.
Channel_into_swapped(channel) ==
    CASE channel = "Channel1" -> 0
      [] channel = "Channel2" -> 1
      [] channel = "Channel3" -> 2
      [] channel = "Channel4" -> 3
      [] channel = "Channel5" -> 4
      [] channel = "Channel6" -> 5
      [] channel = "Channel7" -> 6
      [] channel = "Channel8" -> 7
      [] channel = "Channel9" -> 8
      [] channel = "Channel10" -> 9
      [] channel = "Channel11" -> 10
      [] channel = "Channel12" -> 11
      [] channel = "Channel13" -> 13
      [] channel = "Channel14" -> 12
      [] channel = "Channel15" -> 14
      [] channel = "Channel16" -> 15

\* impl Into<u8> for &Channel
Channel_into(channel) ==
    CASE channel = "Channel1" -> 0
      [] channel = "Channel2" -> 1
      [] channel = "Channel3" -> 2
      [] channel = "Channel4" -> 3
      [] channel = "Channel5" -> 4
      [] channel = "Channel6" -> 5
      [] channel = "Channel7" -> 6
      [] channel = "Channel8" -> 7
      [] channel = "Channel9" -> 8
      [] channel = "Channel10" -> 9
      [] channel = "Channel11" -> 10
      [] channel = "Channel12" -> 11
      [] channel = "Channel13" -> 12
      [] channel = "Channel14" -> 13
      [] channel = "Channel15" -> 14
      [] channel = "Channel16" -> 15

(* ------------------------------ Message -------------------------------- *)

\* A value of enum Message: the variant, its Channel (NoChannel when the
\* variant has none) and its u8 fields in order; for SystemExclusive the
\* fields are the bytes of the borrowed slice.
Message(variant, channel, data) ==
    [variant |-> variant, channel |-> channel, data |-> data]

NoMessage == Message("", NoChannel, <<>>)

\* The variants of Message by shape.
ChannelVariants2 ==
    {"NoteOff", "NoteOn", "PolyphonicAftertouch", "ControlOrModeChange", "PitchBendChange"}

ChannelVariants1 == {"ProgramChange", "Aftertouch"}

UnitVariants ==
    {"TuneRequest", "TimingClock", "Start", "Continue", "Stop", "ActiveSensing", "SystemReset"}

(* ---------------------- outcomes of a call ----------------------------- *)

\* A call either returns its value or panics with a message.
ByteReturned(b) == [tag |-> "Ok", byte |-> b, panic |-> ""]
BytePanic(msg) == [tag |-> "Panic", byte |-> 0, panic |-> msg]

BytesReturned(bs) == [tag |-> "Ok", bytes |-> bs, panic |-> ""]
BytesPanic(msg) == [tag |-> "Panic", bytes |-> <<>>, panic |-> msg]
BytesNotCalled == [tag |-> "None", bytes |-> <<>>, panic |-> ""]

MessageReturned(m) == [tag |-> "Ok", message |-> m, panic |-> ""]
MessagePanic(msg) == [tag |-> "Panic", message |-> NoMessage, panic |-> msg]
MessageNotCalled == [tag |-> "None", message |-> NoMessage, panic |-> ""]

PanicEmpty == "A MIDI message can't be zero bytes long!"
PanicSecond == "No second byte present!"
PanicThird == "No third byte present!"
PanicInvalid == "Invalid MIDI message!"
PanicSlice == "slice index starts at 1 but ends at 0"
PanicRange == "range end index out of range for slice"
PanicOverflow == "attempt to add with overflow"

(* ------------------------------ decode --------------------------------- *)

\* A plausible slip: the closure tests for one byte and reads index 0.
get_second_byte_first(value) ==
    IF Len(value) >= 1 THEN ByteReturned(value[1]) ELSE BytePanic(PanicSecond)

\* let get_second_byte = || ...   (value[1] is the second byte, 0-based)
get_second_byte(value) ==
    IF Len(value) >= 2 THEN ByteReturned(value[2]) ELSE BytePanic(PanicSecond)

\* let get_third_byte = || ...
get_third_byte(value) ==
    IF Len(value) >= 3 THEN ByteReturned(value[3]) ELSE BytePanic(PanicThird)

\* &value[start..end] of the standard library: the bytes at the 0-based
\* positions start..end-1, or a panic when the range is not inside the slice.
slice_index(value, start, end) ==
    IF start > end THEN BytesPanic(PanicSlice)
    ELSE IF end > Len(value) THEN BytesPanic(PanicRange)
    ELSE BytesReturned(SubSeq(value, start + 1, end))

\* A plausible slip: the final byte is not dropped.
sysex_payload_keep_last(value) == slice_index(value, 1, Len(value))

\* &value[1..value.len() - 1]
sysex_payload(value) == slice_index(value, 1, Len(value) - 1)

\* Self::Variant(channel, get_second_byte(), get_third_byte()): the
\* arguments are evaluated left to right and the first panic unwinds.
Construct2(variant, channel, second, third) ==
    IF second.tag = "Panic" THEN MessagePanic(second.panic)
    ELSE IF third.tag = "Panic" THEN MessagePanic(third.panic)
    ELSE MessageReturned(Message(variant, channel, <<second.byte, third.byte>>))

\* Self::Variant(channel, get_second_byte())
Construct1(variant, channel, second) ==
    IF second.tag = "Panic" THEN MessagePanic(second.panic)
    ELSE MessageReturned(Message(variant, channel, <<second.byte>>))

\* Self::SystemExclusive(&value[1..value.len() - 1])
ConstructSysEx(payload) ==
    IF payload.tag = "Panic" THEN MessagePanic(payload.panic)
    ELSE MessageReturned(Message("SystemExclusive", NoChannel, payload.bytes))

\* A plausible slip: the TuneRequest arm is written with 247 instead of 246.
From_tune_typo(value) ==
    IF ~(Len(value) >= 1) THEN MessagePanic(PanicEmpty)
    ELSE LET first_byte == value[1] IN
      CASE first_byte \in 128..143 ->
             Construct2("NoteOff", Channel_from(first_byte - 128),
                        get_second_byte(value), get_third_byte(value))
        [] first_byte \in 144..159 ->
             Construct2("NoteOn", Channel_from(first_byte - 144),
                        get_second_byte(value), get_third_byte(value))
        [] first_byte \in 160..175 ->
             Construct2("PolyphonicAftertouch", Channel_from(first_byte - 145),
                        get_second_byte(value), get_third_byte(value))
        [] first_byte \in 176..191 ->
             Construct2("ControlOrModeChange", Channel_from(first_byte - 176),
                        get_second_byte(value), get_third_byte(value))
        [] first_byte \in 192..207 ->
             Construct1("ProgramChange", Channel_from(first_byte - 192),
                        get_second_byte(value))
        [] first_byte \in 208..223 ->
             Construct1("Aftertouch", Channel_from(first_byte - 208),
                        get_second_byte(value))
        [] first_byte \in 224..239 ->
             Construct2("PitchBendChange", Channel_from(first_byte),
                        get_second_byte(value), get_third_byte(value))
        [] first_byte = 240 -> ConstructSysEx(sysex_payload(value))
        [] first_byte = 242 ->
             Construct2("SongPositionPointer", NoChannel,
                        get_second_byte(value), get_third_byte(value))
        [] first_byte = 243 ->
             Construct1("SongSelect", NoChannel, get_second_byte(value))
        [] first_byte = 247 -> MessageReturned(Message("TuneRequest", NoChannel, <<>>))
        [] first_byte = 248 -> MessageReturned(Message("TimingClock", NoChannel, <<>>))
        [] first_byte = 250 -> MessageReturned(Message("Start", NoChannel, <<>>))
        [] first_byte = 251 -> MessageReturned(Message("Continue", NoChannel, <<>>))
        [] first_byte = 252 -> MessageReturned(Message("Stop", NoChannel, <<>>))
        [] first_byte = 254 -> MessageReturned(Message("ActiveSensing", NoChannel, <<>>))
        [] first_byte = 255 -> MessageReturned(Message("SystemReset", NoChannel, <<>>))
        [] OTHER -> MessagePanic(PanicInvalid)

\* impl<'a> From<&'a [u8]> for Message<'a>   (decode)
From(value) ==
    IF ~(Len(value) >= 1) THEN MessagePanic(PanicEmpty)
    ELSE LET first_byte == value[1] IN
      CASE first_byte \in 128..143 ->
             Construct2("NoteOff", Channel_from(first_byte - 128),
                        get_second_byte(value), get_third_byte(value))
        [] first_byte \in 144..159 ->
             Construct2("NoteOn", Channel_from(first_byte - 144),
                        get_second_byte(value), get_third_byte(value))
        [] first_byte \in 160..175 ->
             Construct2("PolyphonicAftertouch", Channel_from(first_byte - 145),
                        get_second_byte(value), get_third_byte(value))
        [] first_byte \in 176..191 ->
             Construct2("ControlOrModeChange", Channel_from(first_byte - 176),
                        get_second_byte(value), get_third_byte(value))
        [] first_byte \in 192..207 ->
             Construct1("ProgramChange", Channel_from(first_byte - 192),
                        get_second_byte(value))
        [] first_byte \in 208..223 ->
             Construct1("Aftertouch", Channel_from(first_byte - 208),
                        get_second_byte(value))
        [] first_byte \in 224..239 ->
             Construct2("PitchBendChange", Channel_from(first_byte),
                        get_second_byte(value), get_third_byte(value))
        [] first_byte = 240 -> ConstructSysEx(sysex_payload(value))
        [] first_byte = 242 ->
             Construct2("SongPositionPointer", NoChannel,
                        get_second_byte(value), get_third_byte(value))
        [] first_byte = 243 ->
             Construct1("SongSelect", NoChannel, get_second_byte(value))
        [] first_byte = 246 -> MessageReturned(Message("TuneRequest", NoChannel, <<>>))
        [] first_byte = 248 -> MessageReturned(Message("TimingClock", NoChannel, <<>>))
        [] first_byte = 250 -> MessageReturned(Message("Start", NoChannel, <<>>))
        [] first_byte = 251 -> MessageReturned(Message("Continue", NoChannel, <<>>))
        [] first_byte = 252 -> MessageReturned(Message("Stop", NoChannel, <<>>))
        [] first_byte = 254 -> MessageReturned(Message("ActiveSensing", NoChannel, <<>>))
        [] first_byte = 255 -> MessageReturned(Message("SystemReset", NoChannel, <<>>))
        [] OTHER -> MessagePanic(PanicInvalid)

(* ------------------------------ encode --------------------------------- *)

\* u8 + u8: with overflow checks (debug builds) a sum above 255 panics,
\* without them (release builds) it wraps.
add_u8(a, b, overflow_checks) ==
    IF a + b <= 255 THEN ByteReturned(a + b)
    ELSE IF overflow_checks THEN BytePanic(PanicOverflow)
    ELSE ByteReturned((a + b) % 256)

\* A plausible slip: the 1-based channel number is added to the base.
c_to_u8_number(channel) == Channel_into(channel) + 1

\* fn c_to_u8(channel: &Channel) -> u8
c_to_u8(channel) == Channel_into(channel)

\* vec![status, fields...]: the status expression is evaluated first.
vec_of(status, fields) ==
    IF status.tag = "Panic" THEN BytesPanic(status.panic)
    ELSE BytesReturned(<<status.byte>> \o fields)

\* impl<'a> Into<Vec<u8>> for Message<'a>   (encode)
Into(self, overflow_checks) ==
    CASE self.variant = "NoteOff" ->
           vec_of(add_u8(128, c_to_u8(self.channel), overflow_checks),
                  <<self.data[1], self.data[2]>>)
      [] self.variant = "NoteOn" ->
           vec_of(add_u8(144, c_to_u8(self.channel), overflow_checks),
                  <<self.data[1], self.data[2]>>)
      [] self.variant = "PolyphonicAftertouch" ->
           vec_of(add_u8(160, c_to_u8(self.channel), overflow_checks),
                  <<self.data[1], self.data[2]>>)
      [] self.variant = "ControlOrModeChange" ->
           vec_of(add_u8(176, c_to_u8(self.channel), overflow_checks),
                  <<self.data[1], self.data[2]>>)
      [] self.variant = "ProgramChange" ->
           vec_of(add_u8(192, c_to_u8(self.channel), overflow_checks),
                  <<self.data[1]>>)
      [] self.variant = "Aftertouch" ->
           vec_of(add_u8(208, c_to_u8(self.channel), overflow_checks),
                  <<self.data[1]>>)
      [] self.variant = "PitchBendChange" ->
           vec_of(add_u8(224, c_to_u8(self.channel), overflow_checks),
                  <<self.data[1], self.data[2]>>)
      [] self.variant = "SystemExclusive" ->
           BytesReturned(<<240>> \o self.data \o <<247>>)
      [] self.variant = "SongPositionPointer" ->
           BytesReturned(<<242, self.data[1], self.data[2]>>)
      [] self.variant = "SongSelect" -> BytesReturned(<<243, self.data[1]>>)
      [] self.variant = "TuneRequest" -> BytesReturned(<<246>>)
      [] self.variant = "TimingClock" -> BytesReturned(<<248>>)
      [] self.variant = "Start" -> BytesReturned(<<250>>)
      [] self.variant = "Continue" -> BytesReturned(<<251>>)
      [] self.variant = "Stop" -> BytesReturned(<<252>>)
      [] self.variant = "ActiveSensing" -> BytesReturned(<<254>>)
      [] self.variant = "SystemReset" -> BytesReturned(<<255>>)

(* ------------------------------ inputs --------------------------------- *)

\* SystemExclusive payloads.
Payloads == SeqsUpTo(PayloadSamples, MaxPayload)

\* Byte slices handed to decode: the empty slice, every first byte followed
\* by up to MaxLen - 1 further bytes, and 0xF0 framed payloads.
ByteSlices ==
    {<<>>}
    \cup {<<b>> \o t : b \in U8, t \in SeqsUpTo(DataSamples, MaxLen - 1)}
    \cup {<<240>> \o p \o <<last>> : p \in Payloads, last \in PayloadSamples}

\* Message values a caller can construct: any Channel, any u8 fields.
Messages ==
    {Message(v, Channels[c], <<x, y>>) :
        v \in ChannelVariants2, c \in 1..16, x \in DataSamples, y \in DataSamples}
    \cup {Message(v, Channels[c], <<x>>) :
        v \in ChannelVariants1, c \in 1..16, x \in DataSamples}
    \cup {Message("SongPositionPointer", NoChannel, <<x, y>>) :
        x \in DataSamples, y \in DataSamples}
    \cup {Message("SongSelect", NoChannel, <<x>>) : x \in DataSamples}
    \cup {Message(v, NoChannel, <<>>) : v \in UnitVariants}
    \cup {Message("SystemExclusive", NoChannel, p) : p \in Payloads}

(* --------------------------- state machine ----------------------------- *)

VARIABLES
    mode,      \* what the caller starts from: "bytes", "message" or "index"
    pc,        \* the caller's position
    value,     \* the byte slice handed to decode
    message,   \* the Message handed to encode
    index,     \* the u8 handed to Channel::from
    decoded,   \* outcome of Message::from
    encoded,   \* outcome of Message::into
    channel,   \* result of Channel::from
    back       \* result of Channel::into

vars == <<mode, pc, value, message, index, decoded, encoded, channel, back>>

Init ==
    /\ pc = "start"
    /\ decoded = MessageNotCalled
    /\ encoded = BytesNotCalled
    /\ channel = NoChannel
    /\ back = 0
    /\ mode \in {"bytes", "message", "index"}
    /\ value \in IF mode = "bytes" THEN ByteSlices ELSE {<<>>}
    /\ message \in IF mode = "message" THEN Messages ELSE {NoMessage}
    /\ index \in IF mode = "index" THEN U8 ELSE {0}

\* Message::from(value)
Decode ==
    /\ pc = "start"
    /\ mode = "bytes"
    /\ decoded' = From(value)
    /\ pc' = "decoded"
    /\ UNCHANGED <<mode, value, message, index, encoded, channel, back>>

\* Into::<Vec<u8>>::into(m) on the Message that decode returned
Reencode ==
    /\ pc = "decoded"
    /\ decoded.tag = "Ok"
    /\ \E overflow_checks \in BOOLEAN :
          encoded' = Into(decoded.message, overflow_checks)
    /\ pc' = "reencoded"
    /\ UNCHANGED <<mode, value, message, index, decoded, channel, back>>

\* Into::<Vec<u8>>::into(message)
Encode ==
    /\ pc = "start"
    /\ mode = "message"
    /\ \E overflow_checks \in BOOLEAN :
          encoded' = Into(message, overflow_checks)
    /\ pc' = "encoded"
    /\ UNCHANGED <<mode, value, message, index, decoded, channel, back>>

\* Message::from(&bytes[..]) on the bytes that encode returned
Redecode ==
    /\ pc = "encoded"
    /\ encoded.tag = "Ok"
    /\ decoded' = From(encoded.bytes)
    /\ pc' = "redecoded"
    /\ UNCHANGED <<mode, value, message, index, encoded, channel, back>>

\* Channel::from(index)
FromIndex ==
    /\ pc = "start"
    /\ mode = "index"
    /\ channel' = Channel_from(index)
    /\ pc' = "converted"
    /\ UNCHANGED <<mode, value, message, index, decoded, encoded, back>>

\* Into::<u8>::into(&channel)
ToIndex ==
    /\ pc = "converted"
    /\ back' = Channel_into(channel)
    /\ pc' = "done"
    /\ UNCHANGED <<mode, value, message, index, decoded, encoded, channel>>

Next ==
    \/ Decode
    \/ Reencode
    \/ Encode
    \/ Redecode
    \/ FromIndex
    \/ ToIndex

Spec == Init /\ [][Next]_vars

(* ------------------- vocabulary of the properties ---------------------- *)

\* The display number 1..16 of a Channel.
ChannelNumber(c) == CHOOSE n \in 1..16 : Channels[n] = c

\* First bytes outside the dispatch table.
OutsideTable == (0..127) \cup {241, 244, 245, 247, 249, 253}

\* The channel-voice variant of a status byte in 0x80..0xEF, by high nibble.
VoiceVariantOf(s) ==
    << "NoteOff", "NoteOn", "PolyphonicAftertouch", "ControlOrModeChange",
       "ProgramChange", "Aftertouch", "PitchBendChange" >>[(s \div 16) - 7]

\* The base status of a channel-voice variant.
BaseStatus(v) ==
    CASE v = "NoteOff" -> 128
      [] v = "NoteOn" -> 144
      [] v = "PolyphonicAftertouch" -> 160
      [] v = "ControlOrModeChange" -> 176
      [] v = "ProgramChange" -> 192
      [] v = "Aftertouch" -> 208
      [] v = "PitchBendChange" -> 224

\* The fixed status of a system variant.
FixedStatus(v) ==
    CASE v = "SystemExclusive" -> 240
      [] v = "SongPositionPointer" -> 242
      [] v = "SongSelect" -> 243
      [] v = "TuneRequest" -> 246
      [] v = "TimingClock" -> 248
      [] v = "Start" -> 250
      [] v = "Continue" -> 251
      [] v = "Stop" -> 252
      [] v = "ActiveSensing" -> 254
      [] v = "SystemReset" -> 255

\* Trailing data bytes a recognised status byte other than 0xF0 requires.
TrailingBytes(s) ==
    CASE s \in 128..191 -> 2
      [] s \in 192..223 -> 1
      [] s \in 224..239 -> 2
      [] s = 242 -> 2
      [] s = 243 -> 1
      [] OTHER -> 0

SevenBit(bs) == \A i \in DOMAIN bs : bs[i] \in 0..127

\* A byte sequence that is exactly one well-formed message.
WellFormed(b) ==
    /\ Len(b) >= 1
    /\ b[1] \notin OutsideTable
    /\ IF b[1] = 240
       THEN Len(b) >= 2 /\ b[Len(b)] = 247 /\ SevenBit(SubSeq(b, 2, Len(b) - 1))
       ELSE Len(b) = 1 + TrailingBytes(b[1]) /\ SevenBit(Tail(b))

(* ----------------------------- properties ------------------------------ *)

\* C1: decoding the encoding of a Message with 7-bit data bytes gives back
\* a Message equal to it (same variant, same channel, same data bytes).
C1_RoundTrip ==
    (pc = "redecoded" /\ SevenBit(message.data))
        => decoded = MessageReturned(message)

\* C2: a status byte in 0x80..0xEF followed by the data bytes it requires
\* decodes to the variant of its range on the channel of its low nibble,
\* with the following bytes as data in order.
C2_ChannelVoiceDecode ==
    (/\ pc = "decoded"
     /\ Len(value) >= 1
     /\ value[1] \in 128..239
     /\ Len(value) >= 1 + TrailingBytes(value[1]))
        => decoded = MessageReturned(
                        Message(VoiceVariantOf(value[1]),
                                Channels[(value[1] % 16) + 1],
                                SubSeq(value, 2, 1 + TrailingBytes(value[1]))))

\* C3: decode never aborts; it returns to the caller on every input.
C3_NeverAborts ==
    pc = "decoded" => decoded.tag # "Panic"

\* C4: decode of a non-empty input fails as an invalid status byte exactly
\* when the first byte is outside the dispatch table, whatever follows.
C4_InvalidStatus ==
    (pc = "decoded" /\ Len(value) >= 1)
        => ((decoded.tag = "Panic" /\ decoded.panic = PanicInvalid)
                <=> value[1] \in OutsideTable)

C4_Witness ==
    /\ pc = "decoded"
    /\ Len(value) = 3
    /\ value[1] = 249
    /\ decoded = MessagePanic(PanicInvalid)

\* C5: for a status byte that requires k data bytes, decode fails for a
\* missing data byte and yields no Message exactly when the input is
\* shorter than 1 + k.
C5_MissingDataByte ==
    (/\ pc = "decoded"
     /\ Len(value) >= 1
     /\ value[1] \in (128..239) \cup {242, 243})
        => IF Len(value) < 1 + TrailingBytes(value[1])
           THEN decoded.tag = "Panic" /\ decoded.panic \in {PanicSecond, PanicThird}
           ELSE decoded.tag = "Ok"

C5_Witness ==
    /\ pc = "decoded"
    /\ value = <<144, 60>>
    /\ decoded = MessagePanic(PanicThird)

\* C6: a slice of length n >= 2 starting with 0xF0 decodes to
\* SystemExclusive of the bytes at positions 1..n-2, whatever the last byte.
C6_SysExPayload ==
    (pc = "decoded" /\ Len(value) >= 2 /\ value[1] = 240)
        => /\ decoded.tag = "Ok"
           /\ decoded.message.variant = "SystemExclusive"
           /\ Len(decoded.message.data) = Len(value) - 2
           /\ \A j \in 1..(Len(value) - 2) : decoded.message.data[j] = value[j + 1]

C6_Witness ==
    /\ pc = "decoded"
    /\ value = <<240, 1, 2, 3, 247>>
    /\ decoded.message.data = <<1, 2, 3>>

\* C7: encode never fails; it returns base status + channel index (at most
\* 255) or the fixed status, then the data bytes unchanged; SystemExclusive
\* is 0xF0, the payload verbatim, 0xF7.
C7_EncodeTable ==
    pc = "encoded"
        => /\ encoded.tag = "Ok"
           /\ IF message.channel # NoChannel
              THEN /\ BaseStatus(message.variant) + ChannelNumber(message.channel) - 1 <= 255
                   /\ encoded.bytes =
                        <<BaseStatus(message.variant) + ChannelNumber(message.channel) - 1>>
                            \o message.data
              ELSE IF message.variant = "SystemExclusive"
              THEN /\ Len(encoded.bytes) = Len(message.data) + 2
                   /\ encoded.bytes[1] = 240
                   /\ encoded.bytes[Len(encoded.bytes)] = 247
                   /\ SubSeq(encoded.bytes, 2, Len(encoded.bytes) - 1) = message.data
              ELSE encoded.bytes = <<FixedStatus(message.variant)>> \o message.data

C7_Witness ==
    /\ pc = "encoded"
    /\ message = Message("PitchBendChange", "Channel16", <<128, 247>>)
    /\ encoded = BytesReturned(<<239, 128, 247>>)

\* C8: on indices 0..15 the conversion to a Channel and back is the
\* identity, index i is Channel(i+1), and no other index gives that Channel.
C8_IndexLossless ==
    (pc = "done" /\ index \in 0..15)
        => /\ back = index
           /\ channel = Channels[index + 1]
           /\ \A j \in (0..15) \ {index} : Channel_from(j) # channel

C8_Witness ==
    /\ pc = "done"
    /\ index = 12
    /\ channel = "Channel13"
    /\ back = 12

\* C9: every index in 16..255 converts to Channel16, whose index is 15.
C9_Clamp ==
    (pc = "done" /\ index \in 16..255)
        => channel = "Channel16" /\ back = 15

C9_Witness ==
    /\ pc = "done"
    /\ index = 255
    /\ channel = "Channel16"

\* C10: encoding the decoding of exactly one well-formed message gives
\* back the same bytes.
C10_ByteRoundTrip ==
    (pc = "reencoded" /\ WellFormed(value))
        => encoded = BytesReturned(value)

====
